---- MODULE Spec2Model ----
(***************************************************************************)
(* Starship production simulator: the simulation engine of                 *)
(* generate_data.run_configurable_simulation and dashboard.run_simulation. *)
(*                                                                         *)
(* Time is counted in ticks of 1/1000 hour since the epoch day 0, so that  *)
(* a sampled processing time, the 1-hour floor, the rework penalty         *)
(* 0.25 * mean_time_hours and the 2-decimal rounding of duration_hours are *)
(* all exact integers.  duration_hours is kept in hundredths of an hour.   *)
(* pass_rate and the draws of random.random() are kept in hundredths.      *)
(***************************************************************************)
EXTENDS Integers, Sequences, FiniteSets, TLC

VARIABLES
    entry,                  \* which entry point was called
    config,                 \* the argument of the call
    pc,                     \* position in the called function
    i,                      \* loop variable of `for i in range(1, n + 1)`
    k,                      \* 1-based position of stage_name in stages.items()
    station_availability,   \* stage name -> list of next-free times
    ship_completion_times,  \* ship_id -> ready time
    production_log,         \* list of event dicts, in append order
    result,                 \* the returned DataFrame, once returned
    baseline_config,        \* dashboard global: load_config()
    df_baseline,            \* dashboard global: the baseline ledger read from CSV
    kpis_base,              \* dashboard globals total_ships_base, throughput_base, ...
    kpis_sim,               \* total_ships_sim, throughput_sim, total_time_sim
    n_clicks,               \* callback input: clicks on the Run button
    selected_improvement,   \* callback state: the scenario of the dropdown
    twin                    \* a second engine run beside the first, for comparison

\* the state of the dashboard module around the engine
dashboard == <<baseline_config, df_baseline, kpis_base, kpis_sim,
               n_clicks, selected_improvement>>

vars == <<entry, config, pc, i, k, station_availability,
          ship_completion_times, production_log, result, dashboard, twin>>

----------------------------------------------------------------------------
(* Bounds of the model.  start_date is given as a day number. *)

MaxUnits == 2       \* num_starships ranges over 1..MaxUnits
MaxRework == 3      \* failed QC attempts allowed in one run
MaxClicks == 2      \* clicks on the dashboard's Run button

(* Program constants *)

TicksPerHour == 1000        \* model resolution: timedelta(hours=1)
FloorHours == 1             \* max(1, ...) in the processing time
ReworkDivisor == 4          \* mean_time_hours * 0.25
ShipIdBase == 100           \* f"SN{100 + i}"

----------------------------------------------------------------------------
(* Pure helpers *)

\* Python's max(a, b) on two comparable values
Max(a, b) == IF b > a THEN b ELSE a

\* datetime.strptime(params['start_date'], '%Y-%m-%d'): midnight of that day
StrpTime(day) == day * 24 * TicksPerHour

\* f"SN{100 + i}"
ShipId(n) == <<"SN", ShipIdBase + n>>

\* f"{stage_name}_{station_idx + 1}"
StationId(stage_name, station_idx) == <<stage_name, station_idx + 1>>

\* mutant: the station's availability is ignored
StartTime_ShipOnly(ready_time, available_time) == ready_time

\* mutant: the ship's readiness is ignored
StartTime_StationOnly(ready_time, available_time) == available_time

\* max(ship_completion_times[ship_id], available_time)
StartTime(ready_time, available_time) == Max(ready_time, available_time)

\* mutant: the last minimal entry instead of the first
ArgMin_LastMin(avail) ==
    CHOOSE idx \in 0..(Len(avail) - 1) :
        /\ \A j \in 0..(Len(avail) - 1) : avail[idx + 1] <= avail[j + 1]
        /\ \A j \in (idx + 1)..(Len(avail) - 1) : avail[j + 1] > avail[idx + 1]

\* mutant: the first station whatever the availabilities
ArgMin_AlwaysFirst(avail) == 0

\* np.argmin over a list: 0-based index of the first minimal entry
ArgMin(avail) ==
    CHOOSE idx \in 0..(Len(avail) - 1) :
        /\ \A j \in 0..(Len(avail) - 1) : avail[idx + 1] <= avail[j + 1]
        /\ \A j \in 0..(idx - 1) : avail[j + 1] > avail[idx + 1]

\* mutant: the sample is used without the floor
ProcessingTime_NoFloor(sample) == sample

\* max(1, np.random.normal(mean, std)), in ticks
ProcessingTime(sample) == Max(FloorHours * TicksPerHour, sample)

\* 2^n modulo 1000
RECURSIVE Pow2Mod1000(_)
Pow2Mod1000(n) == IF n = 0 THEN 1 ELSE (2 * Pow2Mod1000(n - 1)) % 1000

\* the binary exponent of the float n/d: the e with 2^e <= n/d < 2^(e+1)
RECURSIVE BinaryExponent(_, _)
BinaryExponent(n, d) ==
    IF n < d THEN BinaryExponent(2 * n, d) - 1
    ELSE IF n >= 2 * d THEN BinaryExponent(n, 2 * d) + 1
    ELSE 0

\* round(processing_time, 2), in hundredths of an hour. np.random.normal
\* with scalar arguments returns a Python float, and float.__round__ rounds
\* the exact binary value x, the float nearest to ticks/1000 (ticks > 0).
\* A value ending in 5 thousandths is a tie only in decimal: x is the
\* 53-bit mantissa nearest to ticks/1000, r being the remainder of
\* ticks * 2^(52 - e) by 1000; r < 500 puts x below the half, r > 500
\* above it, and r = 0 makes x the exact half, rounded to the even hundredth
Round2(ticks) ==
    LET q == ticks \div 10
        u == ticks % 10
    IN  IF u > 5 THEN q + 1
        ELSE IF u < 5 THEN q
        ELSE LET e == BinaryExponent(ticks, 1000)
                 r == ((ticks % 1000) * Pow2Mod1000(52 - e)) % 1000
             IN  IF r = 0 THEN (IF q % 2 = 0 THEN q ELSE q + 1)
                 ELSE IF r < 500 THEN q
                 ELSE q + 1

\* mutant: `<=` instead of `<`
QcPassed_Inclusive(draw, pass_rate) == draw <= pass_rate

\* random.random() < stage_params['pass_rate']
QcPassed(draw, pass_rate) == draw < pass_rate

\* mutant: half the mean instead of a quarter
ReworkPenalty_Half(mean_time_hours) == mean_time_hours \div 2

\* stage_params['mean_time_hours'] * 0.25, in ticks
ReworkPenalty(mean_time_hours) == mean_time_hours \div ReworkDivisor

\* mutant: only None is rejected (`if config is None`)
NotConfig_NoneOnly(c) == c.isNone

\* `not config`: None and the empty mapping are both falsy
NotConfig(c) == c.isNone \/ DOMAIN c.value = {}

\* [start_date] * details['station_count']
Repeat(x, n) == [j \in 1..n |-> x]

\* mutant: the stations of a stage share one cell
ListSet_All(lst, idx, x) == [j \in DOMAIN lst |-> x]

\* list[idx] = x with a 0-based index
ListSet(lst, idx, x) == [lst EXCEPT ![idx + 1] = x]

\* dict[key] = x, inserting the key when absent
DictSet(d, key, x) == [kk \in (DOMAIN d) \cup {key} |-> IF kk = key THEN x ELSE d[kk]]

----------------------------------------------------------------------------
(* Inputs *)

\* values np.random.normal may return when std_dev_hours > 0, in ticks:
\* negative, zero, and 5.105 h (whose 2-decimal rounding is decided by the
\* binary float, 5.11, and not by the decimal tie)
Samples == {-2000, 0, 5105}

\* with std_dev_hours = 0 the normal distribution returns its mean
SampleSet(stage_params) ==
    IF stage_params.std_dev_hours = 0
    THEN {stage_params.mean_time_hours}
    ELSE Samples

\* values of random.random() in [0, 1), in hundredths
Draws == {0, 50, 99}

Stage(name, mean, std, rate, count) ==
    [name |-> name,
     params |-> [mean_time_hours |-> mean, std_dev_hours |-> std,
                 pass_rate |-> rate, station_count |-> count]]

StageLists ==
    { <<Stage("Welding", 10000, 0, 100, 1)>>,
      <<Stage("Welding", 10000, 0, 100, 2)>>,
      <<Stage("Welding", 4000, 500, 50, 2),
        Stage("Final_Checkout", 2000, 0, 50, 1)>>,
      <<Stage("Welding", 4000, 500, 100, 1),
        Stage("Heat_Shield_Tiling", 8000, 0, 0, 2)>> }

FullConfigs ==
    { [isNone |-> FALSE,
       value |-> [simulation_parameters |->
                      [start_date |-> 1, num_starships |-> n],
                  production_stages |-> s]] :
      n \in 1..MaxUnits, s \in StageLists }

NoneConfig == [isNone |-> TRUE, value |-> <<>>]
EmptyConfig == [isNone |-> FALSE, value |-> <<>>]

\* a configuration without the key 'num_starships'
NoCountConfig ==
    [isNone |-> FALSE,
     value |-> [simulation_parameters |-> [start_date |-> 1],
                production_stages |-> <<Stage("Welding", 10000, 0, 100, 1)>>]]

Configs == FullConfigs \cup {NoneConfig, EmptyConfig, NoCountConfig}

\* the keys a setup reads are all there
HasKeys(c, param_keys) ==
    /\ {"simulation_parameters", "production_stages"} \subseteq DOMAIN c.value
    /\ param_keys \subseteq DOMAIN c.value.simulation_parameters

EntryPoints == {"run_configurable_simulation", "run_simulation"}

----------------------------------------------------------------------------
(* State read through the configuration, valid once `not config` is false *)

params == config.value.simulation_parameters
stages == config.value.production_stages
start_date == StrpTime(params.start_date)
NumStages == Len(stages)
\* mutant: the stages are iterated in reverse declaration order
StageAt_Reversed(kk) == stages[Len(stages) + 1 - kk]

\* the kk-th item of stages.items(), in declaration order
StageAt(kk) == stages[kk]

stage_name == StageAt(k).name
stage_params == StageAt(k).params
ship_id == ShipId(i)

\* failed attempts so far: every finished (unit, stage) pair has one pass
Reworks == Len(production_log) - ((i - 1) * NumStages + (k - 1))

\* mutant: the loop is left whether or not QC passed
AfterAttempt_AlwaysBreak(qc_passed) ==
    IF k < NumStages
    THEN [pc |-> "while_true", i |-> i, k |-> k + 1]
    ELSE [pc |-> "for_ship", i |-> i + 1, k |-> k]

\* where control goes after an attempt: `break` leaves `while True` for the
\* next stage, or for the next ship after the last stage; otherwise retry
AfterAttempt(qc_passed) ==
    IF qc_passed
    THEN IF k < NumStages
         THEN [pc |-> "while_true", i |-> i, k |-> k + 1]
         ELSE [pc |-> "for_ship", i |-> i + 1, k |-> k]
    ELSE [pc |-> "while_true", i |-> i, k |-> k]

\* calculate_kpis' `return 0, 0, 0`; throughput is kept as a fraction
ZeroKpis ==
    [total_ships |-> 0, throughput |-> [num |-> 0, den |-> 1],
     total_time |-> 0, raised |-> FALSE]

\* the dashboard module is not loaded
NoDashboard ==
    /\ baseline_config = NoneConfig
    /\ df_baseline = <<>>
    /\ kpis_base = ZeroKpis
    /\ kpis_sim = ZeroKpis
    /\ n_clicks = 0
    /\ selected_improvement = "baseline"

\* no second engine
NoTwin == [pc |-> "off"]

\* one call of an entry point, before its first statement
Init ==
    /\ entry \in EntryPoints
    /\ config \in Configs
    /\ pc = "call"
    /\ i = 0
    /\ k = 0
    /\ station_availability = <<>>
    /\ ship_completion_times = <<>>
    /\ production_log = <<>>
    /\ result = [returned |-> FALSE, rows |-> <<>>]
    /\ NoDashboard
    /\ twin = NoTwin

----------------------------------------------------------------------------
(* generate_data.run_configurable_simulation *)

\* lines 21-22: `if not config: return pd.DataFrame()`
RunConfigurable_ReturnEmpty ==
    /\ entry = "run_configurable_simulation"
    /\ pc = "call"
    /\ NotConfig(config)
    /\ pc' = "done"
    /\ result' = [returned |-> TRUE, rows |-> <<>>]
    /\ UNCHANGED <<entry, config, i, k, station_availability,
                   ship_completion_times, production_log>>

\* lines 24-36: read the configuration, create the log, the station
\* availability of every stage and the (empty) ship completion times;
\* a missing key raises KeyError
RunConfigurable_Setup ==
    /\ entry = "run_configurable_simulation"
    /\ pc = "call"
    /\ ~NotConfig(config)
    /\ IF HasKeys(config, {"start_date"})
       THEN /\ pc' = "for_ship"
            /\ i' = 1
            /\ production_log' = <<>>
            /\ station_availability' =
                   [name \in {stages[j].name : j \in 1..NumStages} |->
                       LET j == CHOOSE j \in 1..NumStages : stages[j].name = name
                       IN  Repeat(start_date, stages[j].params.station_count)]
            /\ ship_completion_times' = <<>>
       ELSE /\ pc' = "fault"
            /\ UNCHANGED <<i, production_log, station_availability,
                           ship_completion_times>>
    /\ UNCHANGED <<entry, config, k, result>>

\* lines 38-40 and 84: the head of `for i in range(1, num_starships + 1)`;
\* a new ship becomes ready at start_date, or the log is returned; the
\* header reads params['num_starships'] (line 38), and a config without it
\* raises KeyError here, after the setup has created its state
RunConfigurable_ForShip ==
    /\ entry = "run_configurable_simulation"
    /\ pc = "for_ship"
    /\ IF "num_starships" \notin DOMAIN params
       THEN /\ pc' = "fault"
            /\ UNCHANGED <<i, k, ship_completion_times, result>>
       ELSE IF i <= params.num_starships
       THEN /\ ship_completion_times' =
                   DictSet(ship_completion_times, ship_id, start_date)
            /\ IF NumStages >= 1
               THEN /\ pc' = "while_true"
                    /\ k' = 1
                    /\ i' = i
               ELSE /\ pc' = "for_ship"
                    /\ k' = k
                    /\ i' = i + 1
            /\ UNCHANGED result
       ELSE /\ pc' = "done"
            /\ result' = [returned |-> TRUE, rows |-> production_log]
            /\ UNCHANGED <<i, k, ship_completion_times>>
    /\ UNCHANGED <<entry, config, station_availability, production_log>>

\* lines 43-82: one iteration of `while True`, one attempt of ship i at
\* stage k, with the sampled duration and the QC draw as inputs
RunConfigurable_Attempt(sample, draw) ==
    LET station_idx == ArgMin(station_availability[stage_name])
        available_time == station_availability[stage_name][station_idx + 1]
        start_time == StartTime(ship_completion_times[ship_id], available_time)
        processing_time_hours == ProcessingTime(sample)
        end_time == start_time + processing_time_hours
        qc_passed == QcPassed(draw, stage_params.pass_rate)
        rework_penalty == ReworkPenalty(stage_params.mean_time_hours)
        rework_end_time == end_time + rework_penalty
    IN  /\ entry = "run_configurable_simulation"
        /\ pc = "while_true"
        /\ qc_passed \/ Reworks < MaxRework
        /\ production_log' = Append(production_log,
               [ship_id |-> ship_id,
                stage |-> stage_name,
                station_id |-> StationId(stage_name, station_idx),
                start_time |-> start_time,
                end_time |-> end_time,
                duration_hours |-> Round2(processing_time_hours),
                qc_passed |-> qc_passed])
        /\ IF qc_passed
           THEN /\ station_availability' =
                       [station_availability EXCEPT ![stage_name] =
                           ListSet(@, station_idx, end_time)]
                /\ ship_completion_times' =
                       DictSet(ship_completion_times, ship_id, end_time)
           ELSE /\ station_availability' =
                       [station_availability EXCEPT ![stage_name] =
                           ListSet(@, station_idx, rework_end_time)]
                /\ ship_completion_times' =
                       DictSet(ship_completion_times, ship_id, rework_end_time)
        /\ pc' = AfterAttempt(qc_passed).pc
        /\ i' = AfterAttempt(qc_passed).i
        /\ k' = AfterAttempt(qc_passed).k
        /\ UNCHANGED <<entry, config, result>>

----------------------------------------------------------------------------
(* dashboard.run_simulation *)

\* lines 24-25: `if not config: return pd.DataFrame()`
RunSimulation_ReturnEmpty ==
    /\ entry = "run_simulation"
    /\ pc = "call"
    /\ NotConfig(config)
    /\ pc' = "done"
    /\ result' = [returned |-> TRUE, rows |-> <<>>]
    /\ UNCHANGED <<entry, config, i, k, station_availability,
                   ship_completion_times, production_log>>

\* lines 27-34: as above, and num_starships is read here (line 30), so
\* a config without it raises KeyError before anything is created
RunSimulation_Setup ==
    /\ entry = "run_simulation"
    /\ pc = "call"
    /\ ~NotConfig(config)
    /\ IF HasKeys(config, {"start_date", "num_starships"})
       THEN /\ pc' = "for_ship"
            /\ i' = 1
            /\ production_log' = <<>>
            /\ station_availability' =
                   [name \in {stages[j].name : j \in 1..NumStages} |->
                       LET j == CHOOSE j \in 1..NumStages : stages[j].name = name
                       IN  Repeat(start_date, stages[j].params.station_count)]
            /\ ship_completion_times' = <<>>
       ELSE /\ pc' = "fault"
            /\ UNCHANGED <<i, production_log, station_availability,
                           ship_completion_times>>
    /\ UNCHANGED <<entry, config, k, result>>

\* lines 36-38 and 61
RunSimulation_ForShip ==
    /\ entry = "run_simulation"
    /\ pc = "for_ship"
    /\ IF i <= params.num_starships
       THEN /\ ship_completion_times' =
                   DictSet(ship_completion_times, ship_id, start_date)
            /\ IF NumStages >= 1
               THEN /\ pc' = "while_true"
                    /\ k' = 1
                    /\ i' = i
               ELSE /\ pc' = "for_ship"
                    /\ k' = k
                    /\ i' = i + 1
            /\ UNCHANGED result
       ELSE /\ pc' = "done"
            /\ result' = [returned |-> TRUE, rows |-> production_log]
            /\ UNCHANGED <<i, k, ship_completion_times>>
    /\ UNCHANGED <<entry, config, station_availability, production_log>>

\* lines 41-60: one iteration of `while True`
RunSimulation_Attempt(sample, draw) ==
    LET station_idx == ArgMin(station_availability[stage_name])
        available_time == station_availability[stage_name][station_idx + 1]
        start_time == StartTime(ship_completion_times[ship_id], available_time)
        processing_time_hours == ProcessingTime(sample)
        end_time == start_time + processing_time_hours
        qc_passed == QcPassed(draw, stage_params.pass_rate)
        rework_penalty == ReworkPenalty(stage_params.mean_time_hours)
        rework_end_time == end_time + rework_penalty
    IN  /\ entry = "run_simulation"
        /\ pc = "while_true"
        /\ qc_passed \/ Reworks < MaxRework
        /\ production_log' = Append(production_log,
               [ship_id |-> ship_id,
                stage |-> stage_name,
                start_time |-> start_time,
                end_time |-> end_time])
        /\ IF qc_passed
           THEN /\ station_availability' =
                       [station_availability EXCEPT ![stage_name] =
                           ListSet(@, station_idx, end_time)]
                /\ ship_completion_times' =
                       DictSet(ship_completion_times, ship_id, end_time)
           ELSE /\ station_availability' =
                       [station_availability EXCEPT ![stage_name] =
                           ListSet(@, station_idx, rework_end_time)]
                /\ ship_completion_times' =
                       DictSet(ship_completion_times, ship_id, rework_end_time)
        /\ pc' = AfterAttempt(qc_passed).pc
        /\ i' = AfterAttempt(qc_passed).i
        /\ k' = AfterAttempt(qc_passed).k
        /\ UNCHANGED <<entry, config, result>>

----------------------------------------------------------------------------

RunConfigurable_Step ==
    /\ entry = "run_configurable_simulation"
    /\ pc = "while_true"
    /\ \E sample \in SampleSet(stage_params), draw \in Draws :
           RunConfigurable_Attempt(sample, draw)

RunSimulation_Step ==
    /\ entry = "run_simulation"
    /\ pc = "while_true"
    /\ \E sample \in SampleSet(stage_params), draw \in Draws :
           RunSimulation_Attempt(sample, draw)

\* a call of either entry point on its own: nothing of the dashboard
\* module and no second engine takes part
Next ==
    \/ RunConfigurable_ReturnEmpty /\ UNCHANGED <<dashboard, twin>>
    \/ RunConfigurable_Setup /\ UNCHANGED <<dashboard, twin>>
    \/ RunConfigurable_ForShip /\ UNCHANGED <<dashboard, twin>>
    \/ RunConfigurable_Step /\ UNCHANGED <<dashboard, twin>>
    \/ RunSimulation_ReturnEmpty /\ UNCHANGED <<dashboard, twin>>
    \/ RunSimulation_Setup /\ UNCHANGED <<dashboard, twin>>
    \/ RunSimulation_ForShip /\ UNCHANGED <<dashboard, twin>>
    \/ RunSimulation_Step /\ UNCHANGED <<dashboard, twin>>

Spec == Init /\ [][Next]_vars

----------------------------------------------------------------------------
(* dashboard.run_simulation as a function of its own state, run as `twin`
   beside generate_data.run_configurable_simulation on the same config and
   the same sequence of samples and draws *)

\* the twin is called
TwinCall ==
    [pc |-> "call", i |-> 0, k |-> 0,
     station_availability |-> <<>>,
     ship_completion_times |-> <<>>,
     production_log |-> <<>>,
     result |-> [returned |-> FALSE, rows |-> <<>>]]

\* dashboard.py lines 24-34; line 30 reads num_starships, so a config
\* without it raises KeyError before anything is created
RunSimulationOn_Enter(t) ==
    IF config.isNone \/ DOMAIN config.value = {}
    THEN [t EXCEPT !.pc = "done",
                   !.result = [returned |-> TRUE, rows |-> <<>>]]
    ELSE IF HasKeys(config, {"start_date", "num_starships"})
    THEN [t EXCEPT
            !.pc = "for_ship",
            !.i = 1,
            !.production_log = <<>>,
            !.station_availability =
                [name \in {config.value.production_stages[j].name :
                              j \in 1..Len(config.value.production_stages)} |->
                    LET j == CHOOSE j \in 1..Len(config.value.production_stages) :
                                 config.value.production_stages[j].name = name
                    IN  [m \in 1..config.value.production_stages[j]
                                     .params.station_count |->
                            StrpTime(config.value.simulation_parameters.start_date)]],
            !.ship_completion_times = <<>>]
    ELSE [t EXCEPT !.pc = "fault"]

\* dashboard.py lines 36-38 and 61
RunSimulationOn_ForShip(t) ==
    IF t.i <= config.value.simulation_parameters.num_starships
    THEN LET readied ==
                 DictSet(t.ship_completion_times, <<"SN", 100 + t.i>>,
                         StrpTime(config.value.simulation_parameters.start_date))
         IN  IF Len(config.value.production_stages) >= 1
             THEN [t EXCEPT !.ship_completion_times = readied,
                            !.pc = "while_true", !.k = 1]
             ELSE [t EXCEPT !.ship_completion_times = readied, !.i = t.i + 1]
    ELSE [t EXCEPT !.pc = "done",
                   !.result = [returned |-> TRUE, rows |-> t.production_log]]

\* dashboard.py lines 41-60
RunSimulationOn_Attempt(t, sample, draw) ==
    LET the_ship == <<"SN", 100 + t.i>>
        the_stage == config.value.production_stages[t.k].name
        the_params == config.value.production_stages[t.k].params
        station_idx == ArgMin(t.station_availability[the_stage])
        available_time == t.station_availability[the_stage][station_idx + 1]
        start_time == Max(t.ship_completion_times[the_ship], available_time)
        processing_time_hours == Max(1 * TicksPerHour, sample)
        end_time == start_time + processing_time_hours
        qc_passed == draw < the_params.pass_rate
        rework_end_time == end_time + the_params.mean_time_hours \div 4
        free_at == IF qc_passed THEN end_time ELSE rework_end_time
        logged == Append(t.production_log,
                         [ship_id |-> the_ship, stage |-> the_stage,
                          start_time |-> start_time, end_time |-> end_time])
        reserved == [t.station_availability EXCEPT ![the_stage] =
                        ListSet(@, station_idx, free_at)]
        readied == DictSet(t.ship_completion_times, the_ship, free_at)
        u == [t EXCEPT !.production_log = logged,
                       !.station_availability = reserved,
                       !.ship_completion_times = readied]
    IN  IF ~qc_passed THEN u
        ELSE IF t.k < Len(config.value.production_stages)
        THEN [u EXCEPT !.k = t.k + 1]
        ELSE [u EXCEPT !.pc = "for_ship", !.i = t.i + 1]

PairInit ==
    /\ entry = "run_configurable_simulation"
    /\ config \in Configs
    /\ pc = "call"
    /\ i = 0
    /\ k = 0
    /\ station_availability = <<>>
    /\ ship_completion_times = <<>>
    /\ production_log = <<>>
    /\ result = [returned |-> FALSE, rows |-> <<>>]
    /\ NoDashboard
    /\ twin = TwinCall

\* both engines take their next step; an attempt gives both the same
\* sample and the same draw
Pair_Enter ==
    /\ RunConfigurable_ReturnEmpty \/ RunConfigurable_Setup
    /\ twin.pc = "call"
    /\ twin' = RunSimulationOn_Enter(twin)
    /\ UNCHANGED dashboard

\* a run_simulation that raised in its setup stays where it is
Pair_ForShip ==
    /\ RunConfigurable_ForShip
    /\ twin.pc \in {"for_ship", "fault"}
    /\ twin' = IF twin.pc = "for_ship" THEN RunSimulationOn_ForShip(twin) ELSE twin
    /\ UNCHANGED dashboard

Pair_Step ==
    /\ pc = "while_true"
    /\ twin.pc = "while_true"
    /\ \E sample \in SampleSet(stage_params), draw \in Draws :
           /\ RunConfigurable_Attempt(sample, draw)
           /\ twin' = RunSimulationOn_Attempt(twin, sample, draw)
    /\ UNCHANGED dashboard

PairNext ==
    \/ Pair_Enter
    \/ Pair_ForShip
    \/ Pair_Step

PairSpec == PairInit /\ [][PairNext]_vars

----------------------------------------------------------------------------
(* dashboard: calculate_kpis *)

\* a float as a fraction
Frac(n, d) == [num |-> n, den |-> d]

\* timedelta.days
Days(delta) == delta \div (24 * TicksPerHour)

SeqMax(f, n) == CHOOSE x \in {f[p] : p \in 1..n} : \A p \in 1..n : f[p] <= x
SeqMin(f, n) == CHOOSE x \in {f[p] : p \in 1..n} : \A p \in 1..n : f[p] >= x

\* mutant: the division is not guarded
Throughput_Unguarded(total_ships, total_time) ==
    [value |-> Frac(total_ships * 7, total_time), raised |-> total_time = 0]

\* line 82: total_ships / (total_time / 7) if total_time > 0 else 0;
\* dividing by a zero quotient raises ZeroDivisionError
Throughput(total_ships, total_time) ==
    IF total_time > 0
    THEN [value |-> Frac(total_ships * 7, total_time), raised |-> total_time = 0]
    ELSE [value |-> Frac(0, 1), raised |-> FALSE]

\* lines 74-83
calculate_kpis(dataframe) ==
    IF dataframe = <<>>
    THEN ZeroKpis
    ELSE LET df_completed ==
                 {p \in 1..Len(dataframe) : dataframe[p].stage = "Final_Checkout"}
         IN  IF df_completed = {}
             THEN ZeroKpis
             ELSE LET total_ships ==
                          Cardinality({dataframe[p].ship_id : p \in df_completed})
                      total_time ==
                          Days(SeqMax([p \in 1..Len(dataframe) |->
                                          dataframe[p].end_time], Len(dataframe))
                               - SeqMin([p \in 1..Len(dataframe) |->
                                            dataframe[p].start_time], Len(dataframe)))
                      throughput == Throughput(total_ships, total_time)
                  IN  [total_ships |-> total_ships,
                       throughput |-> throughput.value,
                       total_time |-> total_time,
                       raised |-> throughput.raised]

----------------------------------------------------------------------------
(* dashboard: the module and the callback update_simulation_output *)

Scenarios ==
    {"baseline", "add_tiling_station", "improve_welding_qc", "reduce_plumbing_time"}

\* a production line with the stages the scenarios name, and one without
BaselineStageLists ==
    { <<Stage("Welding", 4000, 0, 50, 1),
        Stage("Plumbing_Wiring", 10000, 0, 100, 1),
        Stage("Heat_Shield_Tiling", 8000, 0, 100, 1),
        Stage("Final_Checkout", 2000, 0, 100, 1)>>,
      <<Stage("Welding", 10000, 0, 100, 1)>> }

\* what load_config() may return to the dashboard
BaselineConfigs ==
    { [isNone |-> FALSE,
       value |-> [simulation_parameters |->
                      [start_date |-> 1, num_starships |-> n],
                  production_stages |-> s]] :
      n \in 1..MaxUnits, s \in BaselineStageLists } \cup {NoneConfig}

\* what the CSV of the standalone generator may give: nothing (file not
\* found), one ship through a 50-hour Final_Checkout, or one ship through
\* a 10-hour Welding
BaselineLedgers ==
    { <<>>,
      <<[ship_id |-> ShipId(1), stage |-> "Final_Checkout",
         station_id |-> StationId("Final_Checkout", 0),
         start_time |-> StrpTime(1), end_time |-> StrpTime(1) + 50000,
         duration_hours |-> 5000, qc_passed |-> TRUE]>>,
      <<[ship_id |-> ShipId(1), stage |-> "Welding",
         station_id |-> StationId("Welding", 0),
         start_time |-> StrpTime(1), end_time |-> StrpTime(1) + 10000,
         duration_hours |-> 1000, qc_passed |-> TRUE]>> }

\* mutant: copy.copy, whose nested dicts are those of the original
DeepCopy_Shallow(c) == [value |-> c, shared |-> TRUE]

\* copy.deepcopy: an equal value that shares nothing with the original
DeepCopy(c) == [value |-> c, shared |-> FALSE]

HasStage(c, name) ==
    /\ "production_stages" \in DOMAIN c.value
    /\ \E j \in 1..Len(c.value.production_stages) :
          c.value.production_stages[j].name = name

\* c['production_stages'][name][field] = f(old value)
SetStageParam(c, name, field, new) ==
    [c EXCEPT !.value.production_stages =
        [j \in 1..Len(@) |->
            IF @[j].name = name
            THEN [@[j] EXCEPT !.params[field] = new]
            ELSE @[j]]]

StageParam(c, name, field) ==
    LET j == CHOOSE j \in 1..Len(c.value.production_stages) :
                 c.value.production_stages[j].name = name
    IN  c.value.production_stages[j].params[field]

\* lines 139-147: the scenario's change to sim_config; a stage the
\* scenario names and the config lacks raises KeyError
ApplyScenario(c, selected) ==
    CASE selected = "add_tiling_station" ->
            IF HasStage(c, "Heat_Shield_Tiling")
            THEN [raised |-> FALSE,
                  value |-> SetStageParam(c, "Heat_Shield_Tiling", "station_count",
                      StageParam(c, "Heat_Shield_Tiling", "station_count") + 1)]
            ELSE [raised |-> TRUE, value |-> c]
      [] selected = "improve_welding_qc" ->
            IF HasStage(c, "Welding")
            THEN [raised |-> FALSE,
                  value |-> SetStageParam(c, "Welding", "pass_rate", 98)]
            ELSE [raised |-> TRUE, value |-> c]
      [] selected = "reduce_plumbing_time" ->
            IF HasStage(c, "Plumbing_Wiring")
            THEN [raised |-> FALSE,
                  value |-> SetStageParam(c, "Plumbing_Wiring", "mean_time_hours",
                      (StageParam(c, "Plumbing_Wiring", "mean_time_hours") * 80)
                          \div 100)]
            ELSE [raised |-> TRUE, value |-> c]
      [] OTHER -> [raised |-> FALSE, value |-> c]

\* lines 64-124: the module has been imported. Without the CSV df_baseline
\* is a frame without columns (lines 68-71) and the layout's
\* df_baseline['end_time'] (line 119) raises KeyError: the import fails
\* and the callback is never registered
DashInit ==
    /\ entry = "run_simulation"
    /\ config = NoneConfig
    /\ i = 0
    /\ k = 0
    /\ station_availability = <<>>
    /\ ship_completion_times = <<>>
    /\ production_log = <<>>
    /\ result = [returned |-> FALSE, rows |-> <<>>]
    /\ baseline_config \in BaselineConfigs
    /\ df_baseline \in BaselineLedgers
    /\ kpis_base = calculate_kpis(df_baseline)
    /\ pc = IF df_baseline = <<>> THEN "fault" ELSE "loaded"
    /\ kpis_sim = ZeroKpis
    /\ n_clicks = 0
    /\ selected_improvement = "baseline"
    /\ twin = NoTwin

\* lines 132-134: the page is rendered and the callback runs with
\* n_clicks = 0, returning ""
UpdateSimulationOutput_PageLoad ==
    /\ pc = "loaded"
    /\ n_clicks = 0
    /\ pc' = "idle"
    /\ UNCHANGED <<entry, config, i, k, station_availability,
                   ship_completion_times, production_log, result,
                   dashboard, twin>>

\* lines 132-149: a click runs the callback with the selected scenario, up
\* to the call of run_simulation(sim_config). An exception ends that one
\* callback and leaves the module as it was: the next click is served
UpdateSimulationOutput_Click ==
    /\ pc = "idle" \/ (pc = "fault" /\ n_clicks > 0)
    /\ n_clicks < MaxClicks
    /\ n_clicks' = n_clicks + 1
    /\ \E selected \in Scenarios :
        /\ selected_improvement' = selected
        /\ IF NotConfig(baseline_config)
           THEN UNCHANGED <<pc, config, baseline_config, i, k,
                            station_availability, ship_completion_times,
                            production_log, result, kpis_sim>>
           ELSE LET copied == DeepCopy(baseline_config)
                    changed == ApplyScenario(copied.value, selected)
                IN  /\ config' = changed.value
                    /\ baseline_config' =
                           IF copied.shared THEN changed.value ELSE baseline_config
                    /\ pc' = IF changed.raised THEN "fault" ELSE "call"
                    /\ i' = 0
                    /\ k' = 0
                    /\ station_availability' = <<>>
                    /\ ship_completion_times' = <<>>
                    /\ production_log' = <<>>
                    /\ result' = [returned |-> FALSE, rows |-> <<>>]
                    /\ kpis_sim' = ZeroKpis
    /\ UNCHANGED <<entry, df_baseline, kpis_base, twin>>

\* lines 149-163: run_simulation has returned sim_df; its KPIs are
\* computed and the result is rendered
UpdateSimulationOutput_Kpis ==
    /\ pc = "done"
    /\ kpis_sim' = calculate_kpis(result.rows)
    /\ pc' = "idle"
    /\ UNCHANGED <<entry, config, i, k, station_availability,
                   ship_completion_times, production_log, result,
                   baseline_config, df_baseline, kpis_base, n_clicks,
                   selected_improvement, twin>>

\* the callback never passes a falsy config, so run_simulation's early
\* return does not occur here
DashNext ==
    \/ UpdateSimulationOutput_PageLoad
    \/ UpdateSimulationOutput_Click
    \/ UpdateSimulationOutput_Kpis
    \/ RunSimulation_Setup /\ UNCHANGED <<dashboard, twin>>
    \/ RunSimulation_ForShip /\ UNCHANGED <<dashboard, twin>>
    \/ RunSimulation_Step /\ UNCHANGED <<dashboard, twin>>

DashSpec == DashInit /\ [][DashNext]_vars

\* an attempt whose QC draw passes
PassingStep ==
    /\ pc = "while_true"
    /\ \E sample \in SampleSet(stage_params), draw \in Draws :
           /\ QcPassed(draw, stage_params.pass_rate)
           /\ \/ RunConfigurable_Attempt(sample, draw)
              \/ RunSimulation_Attempt(sample, draw)
    /\ UNCHANGED <<dashboard, twin>>

\* the interpreter keeps running the function, and a QC draw that can
\* pass is not refused forever
LiveSpec == Spec /\ WF_vars(Next) /\ WF_vars(PassingStep)

TypeOK ==
    /\ entry \in EntryPoints
    /\ config \in Configs
    /\ pc \in {"call", "for_ship", "while_true", "done", "fault"}
    /\ i \in 0..(MaxUnits + 1)
    /\ k \in 0..4
    /\ result.returned \in BOOLEAN

----------------------------------------------------------------------------
(* Reading the ledger *)

GD == "run_configurable_simulation"
Events == 1..Len(production_log)
UnitOf(p) == production_log[p].ship_id[2] - ShipIdBase
StageIndex(name) == CHOOSE j \in 1..NumStages : stages[j].name = name
StageOf(p) == StageIndex(production_log[p].stage)
SamePair(p, q) ==
    /\ production_log[p].ship_id = production_log[q].ship_id
    /\ production_log[p].stage = production_log[q].stage
LastOfPair(p) == \A q \in Events : SamePair(p, q) => q <= p
PairEvents(u, s) ==
    {p \in Events : UnitOf(p) = u /\ StageOf(p) = s}
\* the loops have left the pair (unit u, stage s) behind
Finished(u, s) ==
    \/ pc \in {"for_ship", "done"} /\ u < i
    \/ pc = "while_true" /\ (u < i \/ (u = i /\ s < k))
\* the time a station stays occupied by the event at position p
OccupiedUntil(p) ==
    production_log[p].end_time +
        (IF production_log[p].qc_passed
         THEN 0
         ELSE ReworkPenalty(stages[StageOf(p)].params.mean_time_hours))

----------------------------------------------------------------------------
(* C1: two ledger events of run_configurable_simulation on the same
   station never overlap: the later-generated one starts no earlier than
   the earlier one ends, plus the rework penalty 0.25 * mean_time_hours
   when the earlier one failed QC. *)
C1_StationOneUnitAtATime ==
    entry = GD =>
        \A p \in Events : \A q \in Events :
            (p < q /\ production_log[p].station_id = production_log[q].station_id)
                => production_log[q].start_time >= OccupiedUntil(p)

\* another ship waited on a station for the rework of a failed attempt
C1_Witness ==
    /\ entry = GD
    /\ \E p \in Events : \E q \in Events :
        /\ p < q
        /\ production_log[p].station_id = production_log[q].station_id
        /\ production_log[p].ship_id # production_log[q].ship_id
        /\ ~production_log[p].qc_passed
        /\ production_log[q].start_time = OccupiedUntil(p)
        /\ production_log[q].start_time > start_date

(* C2: at every attempt the station taken has the minimum availability of
   its stage, and is the lowest-indexed station at that minimum. *)
C2_SelectsEarliestLowestIndex ==
    [][ Len(production_log') = Len(production_log) + 1 =>
          LET e == production_log'[Len(production_log')]
              before == station_availability[e.stage]
              after == station_availability'[e.stage]
              taken == {j \in 1..Len(before) : after[j] # before[j]}
          IN  /\ Cardinality(taken) = 1
              /\ \A j \in taken :
                    /\ \A m \in 1..Len(before) : before[j] <= before[m]
                    /\ \A m \in 1..(j - 1) : before[m] > before[j]
                    /\ entry = GD => e.station_id = <<e.stage, j>>
      ]_vars

\* a tie was broken towards station 1 and a later attempt took station 2
C2_Witness ==
    /\ entry = GD
    /\ \E p \in Events : \E q \in Events :
        /\ p < q
        /\ production_log[p].stage = production_log[q].stage
        /\ production_log[p].station_id[2] = 1
        /\ production_log[q].station_id[2] = 2
        /\ production_log[p].start_time = start_date

(* C3: the events of a finished (unit, stage) pair are all qc_passed = false
   except the last, which is qc_passed = true; exactly one passes, and a
   passing event is never followed by another event of its pair. *)
C3_FailuresThenOnePass ==
    (entry = GD /\ production_log # <<>>) =>
        \A u \in 1..params.num_starships : \A s \in 1..NumStages :
            LET E == PairEvents(u, s)
            IN  /\ Finished(u, s) =>
                    /\ E # {}
                    /\ Cardinality({p \in E : production_log[p].qc_passed}) = 1
                /\ \A p \in E :
                    production_log[p].qc_passed
                        <=> (Finished(u, s) /\ LastOfPair(p))

\* a finished pair that needed a rework
C3_Witness ==
    /\ entry = GD
    /\ \E p \in Events : \E q \in Events :
        /\ p < q
        /\ SamePair(p, q)
        /\ ~production_log[p].qc_passed
        /\ production_log[q].qc_passed
        /\ Finished(UnitOf(q), StageOf(q))

(* C4: a unit takes the stages in declared order: every event at stage
   k+1 comes after, and starts no earlier than the end of, the unit's
   passing (last) event at stage k. *)
C4_StagesInOrder ==
    \A q \in Events :
        StageOf(q) > 1 =>
            \E p \in 1..(q - 1) :
                /\ production_log[p].ship_id = production_log[q].ship_id
                /\ StageOf(p) = StageOf(q) - 1
                /\ LastOfPair(p)
                /\ entry = GD => production_log[p].qc_passed
                /\ production_log[q].start_time >= production_log[p].end_time

\* a unit is at its second stage after a rework at the first, and the
\* second stage's station was free before the unit was ready
C4_Witness ==
    \E p \in Events : \E q \in Events : \E r \in Events :
        /\ p < q /\ q < r
        /\ SamePair(p, q)
        /\ production_log[r].ship_id = production_log[q].ship_id
        /\ StageOf(q) = 1 /\ StageOf(r) = 2
        /\ production_log[r].start_time = production_log[q].end_time

(* C5: the ledger is unit-major and stage-minor: along the ledger the unit
   index never decreases, and within a unit the stage index never
   decreases. *)
C5_LedgerUnitMajorStageMinor ==
    \A p \in Events : \A q \in Events :
        p < q =>
            /\ UnitOf(p) <= UnitOf(q)
            /\ UnitOf(p) = UnitOf(q) => StageOf(p) <= StageOf(q)

\* two units have gone through two stages each, the first with a rework
C5_Witness ==
    /\ ~NotConfig(config)
    /\ pc = "done"
    /\ params.num_starships >= 2
    /\ NumStages >= 2
    /\ Len(production_log) > params.num_starships * NumStages
    /\ UnitOf(1) = 1
    /\ UnitOf(Len(production_log)) = 2

(* C6: one stage, one station, pass_rate 1 and a fixed processing time d
   of 10 hours: the units serialize on the station, unit n occupying it
   from start_date + (n-1)*d to start_date + n*d. *)
SerialConfig(count) ==
    /\ ~NotConfig(config)
    /\ NumStages = 1
    /\ stages[1].params.station_count = count
    /\ stages[1].params.pass_rate = 100
    /\ stages[1].params.std_dev_hours = 0
    /\ stages[1].params.mean_time_hours = 10 * TicksPerHour

C6_SingleStationSerializes ==
    SerialConfig(1) =>
        \A p \in Events :
            /\ UnitOf(p) = p
            /\ production_log[p].start_time
                   = start_date + (p - 1) * 10 * TicksPerHour
            /\ production_log[p].end_time
                   = start_date + p * 10 * TicksPerHour

\* the run of two units on one station has returned
C6_Witness ==
    /\ SerialConfig(1)
    /\ pc = "done"
    /\ Len(result.rows) >= 2
    /\ result.rows[2].start_time = start_date + 10 * TicksPerHour
    /\ result.rows[2].end_time = start_date + 20 * TicksPerHour

(* C7: the same with two stations: the first two units do not contend,
   both run from start_date to start_date + 10 hours, unit 1 on station 1
   and unit 2 on station 2. *)
C7_TwoStationsNoContention ==
    SerialConfig(2) =>
        \A p \in Events :
            p <= 2 =>
                /\ UnitOf(p) = p
                /\ production_log[p].start_time = start_date
                /\ production_log[p].end_time = start_date + 10 * TicksPerHour
                /\ entry = GD =>
                       production_log[p].station_id
                           = <<production_log[p].stage, p>>

\* both units are in the ledger of run_configurable_simulation
C7_Witness ==
    /\ SerialConfig(2)
    /\ entry = GD
    /\ Len(production_log) >= 2
    /\ production_log[2].station_id[2] = 2
    /\ production_log[2].start_time = production_log[1].start_time

\* the configuration is there and has the keys of a SimulationConfig that
\* the engines read; without one of them the run is a fault (KeyError)
ConfigComplete ==
    /\ ~NotConfig(config)
    /\ HasKeys(config, {"start_date", "num_starships"})

(* C8: with pass_rate > 0 at every stage and a QC draw that eventually
   passes, the run completes with every unit through every stage; with
   pass_rate = 0 at some stage and at least one unit, the first unit stays
   in the retry loop of the first such stage and the run never returns. *)
AllStagesCanPass ==
    /\ ConfigComplete
    /\ \A s \in 1..NumStages : stages[s].params.pass_rate > 0
SomeStageNeverPasses ==
    /\ ConfigComplete
    /\ params.num_starships >= 1
    /\ \E s \in 1..NumStages : stages[s].params.pass_rate = 0
FirstDeadStage ==
    CHOOSE s \in 1..NumStages :
        /\ stages[s].params.pass_rate = 0
        /\ \A t \in 1..(s - 1) : stages[t].params.pass_rate > 0
Completed ==
    /\ ConfigComplete
    /\ pc = "done"
    /\ result = [returned |-> TRUE, rows |-> production_log]
    /\ \A u \in 1..params.num_starships : \A s \in 1..NumStages :
          \E p \in PairEvents(u, s) : LastOfPair(p)
RetryingForever ==
    /\ SomeStageNeverPasses
    /\ pc = "while_true"
    /\ i = 1
    /\ k = FirstDeadStage
C8_CompletesOrNeverTerminates ==
    /\ AllStagesCanPass => <>Completed
    /\ SomeStageNeverPasses => <>[]RetryingForever
    /\ [](SomeStageNeverPasses => pc # "done")

\* the first unit has failed at the stage that never passes
C8_Witness ==
    /\ RetryingForever
    /\ PairEvents(1, FirstDeadStage) # {}

\* a run with reworks has completed
C8_WitnessCompleted ==
    /\ AllStagesCanPass
    /\ Completed
    /\ Len(production_log) > params.num_starships * NumStages

(* C9: with a configuration that is None or an empty mapping, both entry
   points return an empty ledger: no attempt runs, no station or ship
   state is created, and nothing is raised. *)
C9_AbsentConfigEmptyLedger ==
    config \in {NoneConfig, EmptyConfig} =>
        /\ pc \in {"call", "done"}
        /\ pc = "done" => result = [returned |-> TRUE, rows |-> <<>>]
        /\ production_log = <<>>
        /\ DOMAIN station_availability = {}
        /\ DOMAIN ship_completion_times = {}
        /\ i = 0

\* the call with an empty mapping has returned
C9_Witness ==
    /\ config = EmptyConfig
    /\ pc = "done"
    /\ result.returned

(* C10: every event lasts at least one hour: end_time - start_time >= 1 h,
   and duration_hours >= 1 where it is recorded, whatever the normal
   distribution returned. *)
C10_DurationAtLeastOneHour ==
    \A p \in Events :
        /\ production_log[p].end_time - production_log[p].start_time
               >= FloorHours * TicksPerHour
        /\ entry = GD =>
               production_log[p].duration_hours * 10 >= FloorHours * TicksPerHour

\* a sample of a stage with std_dev_hours > 0 was raised to the floor
C10_Witness ==
    /\ entry = GD
    /\ \E p \in Events :
        /\ stages[StageOf(p)].params.std_dev_hours > 0
        /\ production_log[p].duration_hours * 10 = FloorHours * TicksPerHour
        /\ production_log[p].end_time - production_log[p].start_time
               = FloorHours * TicksPerHour

----------------------------------------------------------------------------
(* Reading one attempt: a step that appends an event *)

AttemptStep == Len(production_log') = Len(production_log) + 1
NewEvent == production_log'[Len(production_log')]
MeanOf(name) == stages[StageIndex(name)].params.mean_time_hours
\* the loops moved on, which they do exactly when QC passed
MovedOn == <<pc', i', k'>> # <<pc, i, k>>

(* C15: the availability of every station of every stage never decreases
   over the run and is never below start_date. *)
C15_AvailabilityNonDecreasing ==
    [][ /\ \A name \in DOMAIN station_availability' :
              \A j \in 1..Len(station_availability'[name]) :
                  station_availability'[name][j] >= start_date
        /\ \A name \in DOMAIN station_availability :
              \A j \in 1..Len(station_availability[name]) :
                  station_availability'[name][j] >= station_availability[name][j]
      ]_vars

\* a station has been reserved a second time, later than the first
C15_Witness ==
    /\ entry = GD
    /\ \E p \in Events : \E q \in Events :
        /\ p < q
        /\ production_log[p].station_id = production_log[q].station_id
        /\ station_availability[production_log[q].stage]
               [production_log[q].station_id[2]] = OccupiedUntil(q)
        /\ OccupiedUntil(q) > OccupiedUntil(p)

(* C16: a unit's ready time starts at start_date and never decreases, and
   in the ledger each event of a unit starts no earlier than the end of
   the unit's previous event, so its start times never decrease. *)
C16_ReadyTimeNonDecreasing ==
    /\ [][ /\ \A s \in DOMAIN ship_completion_times :
                 /\ s \in DOMAIN ship_completion_times'
                 /\ ship_completion_times'[s] >= ship_completion_times[s]
           /\ \A s \in DOMAIN ship_completion_times' :
                 s \notin DOMAIN ship_completion_times =>
                     ship_completion_times'[s] = start_date
         ]_vars
    /\ [](\A p \in Events : \A q \in Events :
             (p < q /\ production_log[p].ship_id = production_log[q].ship_id)
                 => /\ production_log[q].start_time >= production_log[p].end_time
                    /\ production_log[q].start_time >= production_log[p].start_time)

\* a unit is ready later than its third event started
C16_Witness ==
    \E p \in Events :
        /\ p + 2 \in Events
        /\ production_log[p].ship_id = production_log[p + 2].ship_id
        /\ production_log[p + 2].start_time > production_log[p].end_time
        /\ ship_completion_times[production_log[p].ship_id]
               > production_log[p + 2].start_time

(* C17: an attempt starts at the later of the unit's ready time and the
   chosen station's availability and ends one processing time later; on
   QC pass the station and the unit both become free at end_time, on QC
   fail both at end_time + 0.25 * mean_time_hours of the stage, and the
   same stage is attempted again. *)
C17_AttemptTransition ==
    [][ AttemptStep =>
          LET e == NewEvent
              before == station_availability[e.stage]
              after == station_availability'[e.stage]
              ready == ship_completion_times[e.ship_id]
              ready_after == ship_completion_times'[e.ship_id]
          IN  \E j \in 1..Len(before) :
                /\ entry = GD => e.station_id = <<e.stage, j>>
                /\ e.start_time >= ready
                /\ e.start_time >= before[j]
                /\ e.start_time \in {ready, before[j]}
                /\ e.end_time >= e.start_time + FloorHours * TicksPerHour
                /\ entry = GD =>
                       /\ e.duration_hours = Round2(e.end_time - e.start_time)
                       /\ e.qc_passed = MovedOn
                /\ MovedOn =>
                       /\ after[j] = e.end_time
                       /\ ready_after = e.end_time
                /\ ~MovedOn =>
                       /\ (after[j] - e.end_time) * ReworkDivisor = MeanOf(e.stage)
                       /\ ready_after = after[j]
      ]_vars

\* a failed attempt whose duration was not the stage's mean
C17_Witness ==
    /\ entry = GD
    /\ pc = "while_true"
    /\ production_log # <<>>
    /\ LET e == production_log[Len(production_log)]
       IN  /\ ~e.qc_passed
           /\ e.end_time - e.start_time # MeanOf(e.stage)
           /\ (ship_completion_times[e.ship_id] - e.end_time) * ReworkDivisor
                  = MeanOf(e.stage)

(* C18: an attempt changes the availability of one station of its stage
   and nothing else of the stations, changes the ready time of its own
   unit only, and appends one event, leaving the earlier events as they
   were. *)
C18_AttemptFrame ==
    [][ AttemptStep =>
          LET e == NewEvent
          IN  /\ DOMAIN station_availability' = DOMAIN station_availability
              /\ \A name \in DOMAIN station_availability :
                    name # e.stage =>
                        station_availability'[name] = station_availability[name]
              /\ Len(station_availability'[e.stage])
                     = Len(station_availability[e.stage])
              /\ Cardinality({j \in 1..Len(station_availability[e.stage]) :
                     station_availability'[e.stage][j]
                         # station_availability[e.stage][j]}) = 1
              /\ DOMAIN ship_completion_times' = DOMAIN ship_completion_times
              /\ \A s \in DOMAIN ship_completion_times :
                    s # e.ship_id =>
                        ship_completion_times'[s] = ship_completion_times[s]
              /\ SubSeq(production_log', 1, Len(production_log)) = production_log
              /\ config' = config
      ]_vars

\* the second unit has made an attempt at a stage with two stations, on
\* the station the first unit did not leave last
C18_Witness ==
    /\ pc = "while_true"
    /\ i = 2
    /\ production_log # <<>>
    /\ LET e == production_log[Len(production_log)]
       IN  /\ e.ship_id = ShipId(2)
           /\ Len(station_availability[e.stage]) = 2
           /\ station_availability[e.stage][1] > start_date
           /\ station_availability[e.stage][2] > start_date
           /\ station_availability[e.stage][1] # station_availability[e.stage][2]
           /\ ship_completion_times[ShipId(1)] # ship_completion_times[ShipId(2)]

(* C20: a retry starts exactly when the rework of the failed attempt ends:
   the next event of the same unit and stage starts at the failed event's
   end_time + 0.25 * mean_time_hours, whichever station it is on. *)
C20_RetryStartsAtReworkEnd ==
    \A p \in Events :
        (p + 1 \in Events /\ SamePair(p, p + 1)) =>
            /\ (production_log[p + 1].start_time - production_log[p].end_time)
                   * ReworkDivisor = MeanOf(production_log[p].stage)
            /\ entry = GD => ~production_log[p].qc_passed

\* the retry went to the other, free station and still waited for the rework
C20_Witness ==
    /\ entry = GD
    /\ \E p \in Events :
        /\ p + 1 \in Events
        /\ SamePair(p, p + 1)
        /\ production_log[p + 1].station_id # production_log[p].station_id
        /\ production_log[p + 1].start_time > production_log[p].end_time

(* C19: run on the same configuration with the same samples and draws,
   run_simulation and run_configurable_simulation go through the same
   positions, station availabilities and ready times step by step, and the
   ledger of run_simulation is the ledger of run_configurable_simulation
   projected onto (ship_id, stage, start_time, end_time). The
   configuration is absent, empty, or a SimulationConfig with its keys; on
   one that lacks a key both runs are a fault and neither returns a
   ledger. *)
Project(rows) ==
    [p \in 1..Len(rows) |->
        [ship_id |-> rows[p].ship_id, stage |-> rows[p].stage,
         start_time |-> rows[p].start_time, end_time |-> rows[p].end_time]]

C19_SameEngine ==
    twin # NoTwin =>
        /\ NotConfig(config) \/ ConfigComplete =>
              /\ twin.pc = pc
              /\ twin.i = i
              /\ twin.k = k
              /\ twin.station_availability = station_availability
              /\ twin.ship_completion_times = ship_completion_times
              /\ twin.production_log = Project(production_log)
              /\ twin.result.returned = result.returned
              /\ twin.result.rows = Project(result.rows)
        /\ ~(NotConfig(config) \/ ConfigComplete) =>
              /\ ~twin.result.returned
              /\ ~result.returned
              /\ twin.production_log = Project(production_log)

\* both engines have returned a ledger with reworks, two units, two stages
C19_Witness ==
    /\ twin # NoTwin
    /\ twin.pc = "done"
    /\ pc = "done"
    /\ Len(twin.result.rows) > 4
    /\ \E p \in Events : ~production_log[p].qc_passed
    /\ \E p \in Events : production_log[p].station_id[2] = 2
    /\ twin.result.rows[Len(twin.result.rows)].end_time
           = result.rows[Len(result.rows)].end_time

----------------------------------------------------------------------------
(* Claims about the dashboard *)

\* the callback has rendered a run: sim_df and its KPIs are in hand
Rendered == pc = "idle" /\ result.returned

\* max(end_time) - min(start_time) over the whole ledger, in days
MakespanDays(rows) ==
    Days(SeqMax([p \in 1..Len(rows) |-> rows[p].end_time], Len(rows))
         - SeqMin([p \in 1..Len(rows) |-> rows[p].start_time], Len(rows)))

KpisGuarded(rows, kp) ==
    /\ ~kp.raised
    /\ kp.throughput.den # 0
    /\ IF rows = <<>> \/ MakespanDays(rows) <= 0
       THEN kp.throughput.num = 0
       ELSE kp.throughput.num * MakespanDays(rows)
                = 7 * kp.total_ships * kp.throughput.den

\* C12: calculate_kpis returns throughput 0 when the ledger is empty or its
\* makespan in days is <= 0, otherwise total_units / (makespan_days / 7),
\* and it never divides by zero; for the baseline ledger and for every
\* ledger the callback renders.
C12_ThroughputGuarded ==
    /\ KpisGuarded(df_baseline, kpis_base)
    /\ Rendered => KpisGuarded(result.rows, kpis_sim)

\* a rendered run with a makespan of at least one day and a positive
\* throughput, beside a baseline ledger with a positive throughput
C12_Witness ==
    /\ Rendered
    /\ MakespanDays(result.rows) > 0
    /\ kpis_sim.throughput.num > 0
    /\ kpis_base.throughput.num > 0

\* a rendered run whose makespan is under one day: the guarded case
C12_WitnessZero ==
    /\ Rendered
    /\ result.rows # <<>>
    /\ MakespanDays(result.rows) <= 0
    /\ kpis_sim.throughput.num = 0

\* the units with an event at the last stage of the configuration
UnitsAtTerminalStage(rows) ==
    {rows[p].ship_id : p \in {q \in 1..Len(rows) :
        rows[q].stage = StageAt(NumStages).name}}

\* C13: for the ledger of a completed run, total_units is the number of
\* distinct units with an event at the last stage of the configuration, and
\* so equals unit_count whatever the stages are named.
C13_CountsTerminalStage ==
    Rendered =>
        /\ kpis_sim.total_ships = Cardinality(UnitsAtTerminalStage(result.rows))
        /\ kpis_sim.total_ships = params.num_starships

ScenarioRunning ==
    pc \in {"call", "for_ship", "while_true", "done"} \/ Rendered

\* what the selected scenario makes of one parameter of one stage
ScenarioParam(selected, name, field, old) ==
    CASE selected = "add_tiling_station" /\ name = "Heat_Shield_Tiling"
             /\ field = "station_count" -> old + 1
      [] selected = "improve_welding_qc" /\ name = "Welding"
             /\ field = "pass_rate" -> 98
      [] selected = "reduce_plumbing_time" /\ name = "Plumbing_Wiring"
             /\ field = "mean_time_hours" -> (old * 4) \div 5
      [] OTHER -> old

\* C14: baseline_config never changes; every run simulates the baseline
\* with the selected scenario's one change applied once, however many runs
\* came before; run_simulation leaves the config it is given unchanged.
C14_BaselineNeverMutated ==
    /\ [][baseline_config' = baseline_config]_vars
    /\ [][(pc \in {"call", "for_ship", "while_true"}) => (config' = config)]_vars
    /\ [](ScenarioRunning =>
            /\ config.value.simulation_parameters
                   = baseline_config.value.simulation_parameters
            /\ Len(config.value.production_stages)
                   = Len(baseline_config.value.production_stages)
            /\ \A j \in 1..Len(config.value.production_stages) :
                  LET new == config.value.production_stages[j]
                      old == baseline_config.value.production_stages[j]
                  IN  /\ new.name = old.name
                      /\ DOMAIN new.params = DOMAIN old.params
                      /\ \A f \in DOMAIN old.params :
                            new.params[f] = ScenarioParam(selected_improvement,
                                                old.name, f, old.params[f]))

\* a second run of add_tiling_station, simulating one station more than
\* the baseline
C14_Witness ==
    /\ n_clicks >= 2
    /\ selected_improvement = "add_tiling_station"
    /\ pc = "done"
    /\ StageParam(config, "Heat_Shield_Tiling", "station_count")
           = StageParam(baseline_config, "Heat_Shield_Tiling", "station_count") + 1

====
